---- MODULE Spec2Model ----
(***************************************************************************)
(* Model of the search-in-newtab plugin (extended variant, the class       *)
(* SearchPinnedRememberPlugin of src/README.md lines 380-1471): the leaf   *)
(* lifecycle tracker, the redirection engine and the command / view-state  *)
(* interception layer, running on the host's single-threaded event loop.   *)
(*                                                                         *)
(* Every handler of the plugin is an operator from a world record (one     *)
(* field per variable) to the world record after the handler has run up to *)
(* its next suspension point; an action applies one handler to the current *)
(* world.  Suspension points are the awaits on leaf.setViewState.          *)
(* Timeouts (setTimeout / setInterval) are pending timers that fire in any *)
(* order; Date.now() is the variable now, which advances from one instant  *)
(* at which a comparison of the plugin changes to the next.                *)
(*                                                                         *)
(* Spec is the plugin started with nothing remembered, with leaves in the  *)
(* main area and in the sidebars, commands, the settings toggle and        *)
(* teardown.  SpecWatch is the plugin started with or without a remembered *)
(* state and search views of the main area that the user edits.            *)
(***************************************************************************)
EXTENDS Integers, Sequences, FiniteSets, TLC

(* ------------------------------ bounds --------------------------------- *)
MaxLeaves == 3          \* leaf slots of the workspace
StartTime == 10000      \* Date.now() when the plugin object is constructed
MaxElapsed == 2500      \* the clock stops advancing after this many ms
MaxIntervals == 2       \* ids handed out by window.setInterval
MaxPassTimers == 1      \* pending handleSearchCommandExecution timeouts
MaxTasks == 2           \* handler invocations suspended in an await
MaxApplications == 2    \* successive applications of the sanitiser
MaxChain == 11          \* ancestors on the parent chain of a leaf
MaxCalls == 2           \* calls of isInMainArea between two layout changes

(* -------------------------- program constants -------------------------- *)
gracePeriod == 2000
duplicatePreventionWindow == 500
immunityPeriod == 2000
MaxDepth == 10          \* isInMainArea: while (parent && depth < 10)

Leaves == 1..MaxLeaves

(* ------------------------------ SearchState ---------------------------- *)
(* A search state is a function from field names to strings; Null is the   *)
(* JavaScript null / undefined.                                            *)
Null == [null |-> "null"]
EmptyState == [k \in {} |-> ""]
LeafStates ==
  { [query |-> "foo"],
    [query |-> "foo", sortOrder |-> "alpha"] }

\* the states a search view can report: each field present or absent
QueryParts == {EmptyState, [query |-> ""], [query |-> "foo"]}
SortParts == {EmptyState, [sortOrder |-> "alpha"], [sortOrder |-> "byModifiedTime"]}
CaseParts == {EmptyState, [matchingCase |-> "true"]}
SearchStates ==
  {Null} \cup {q @@ o @@ c : q \in QueryParts, o \in SortParts, c \in CaseParts}

Truthy(state) == state # Null

\* state?.query || ""
QueryOf(state) ==
  IF state # Null /\ "query" \in DOMAIN state THEN state.query ELSE ""

\* { ...state, query: q }
WithQuery(state, q) ==
  LET base == IF state = Null THEN EmptyState ELSE state
  IN  ("query" :> q) @@ base

\* { ...state }
Spread(state) == IF state = Null THEN EmptyState ELSE state

JSONField(state, k) ==
  IF k \in DOMAIN state THEN k \o ":" \o state[k] \o "," ELSE ""

JSONstringify(state) ==
  "{" \o JSONField(state, "query") \o JSONField(state, "sortOrder") \o "}"

NoBaseline == "undefined"

DEFAULT_SETTINGS ==
  [ lastSearchState |-> Null,
    rememberQuery |-> FALSE,
    openBookmarksInMainArea |-> TRUE,
    clearSidebarSearchOnStartup |-> FALSE,
    debugMode |-> FALSE,
    autoPinSearchTab |-> TRUE ]

\* what data.json may hold when the plugin is constructed
StoredAtStart ==
  { EmptyState,
    [lastSearchState |-> [sortOrder |-> "alpha"]] }

SearchCommands ==
  {"global-search:open", "search-current-file", "search:toggle", "search:open"}
DispatchedCommands == {"global-search:open", "editor:save-file"}

VARIABLES
  now,                        \* Date.now()
  phase,                      \* "constructed", "loading", "running", "unloaded"
  settings, stored,           \* this.settings, the record kept by saveData
  leafStatus,                 \* per slot: "free", "open", "detached"
  leafMain,                   \* per slot: is the leaf under workspace.rootSplit
  viewType,                   \* per slot: "empty", "search", "other"
  leafState,                  \* per slot: getViewState().state
  pinned, hidden,             \* per slot: setPinned(true), containerEl display none
  monitored,                  \* leaves carrying __viewStateMonitored
  vsMonitoring,               \* layout-change callback of setupViewStateMonitoring registered
  processedLeaves, leafCreationTime, leafWatchIntervals, leafBaselineState,
  allIntervalIds,
  liveIntervals,              \* the window's active intervals: records [id, leaf]
  nextIntervalId,
  lastRedirectionTriggerTime, isInitialLoad, initializationCompleteTime,
  originalExecuteCommand,     \* "null", "host", "wrapper"
  executeCommand,             \* app.commands.executeCommand: "host", "wrapper"
  passTimers,                 \* pending setTimeout(handleSearchCommandExecution)
  detachTimers,               \* leaves with a pending setTimeout(leaf.detach)
  reapplyTimers,              \* pending double-apply timeouts: records [leaf, vs]
  applyTasks,                 \* processNewSearchLeaf suspended in applySettingsToNewLeaf
  createTasks,                \* createSearchTabInMainArea suspended in setViewState
  openTasks,                  \* openPinnedSearchWithLastState suspended in setViewState
  sanInput,                   \* a state handed to sanitizeSearchStateForPersistence
  sanResults,                 \* its successive applications: remember, arg, result
  initializedSearchLeaves,    \* main.ts: leaves tryInitializeNewSearchLeaves has seen
  leafLastStateStr,           \* main.ts: last JSON a poll saw per leaf
  initTasks,                  \* main.ts: tryInitializeNewSearchLeaves suspended in setViewState
  savedBeforeOpen,            \* main.ts: lastSearchState when the leaf appeared
  parentOf,                   \* isInMainArea: item.parent, 0 is the leaf, 0 as a value is null
  rootSplit,                  \* isInMainArea: workspace.rootSplit
  leafLocationCache,          \* the leaf's entry: "none", "main", "sidebar"
  layoutHandlers,             \* the layout-change handlers: "none", "registered", "removed"
  classified,                 \* observation: the calls of isInMainArea and the last result
  cachedBeforeLayoutChange,   \* observation: the entry is older than the last layout change
  \* observation (history) variables, read by no handler
  procCount,                  \* per slot: runs of processNewSearchLeaf (capped)
  replacementOf,              \* per slot: the peripheral leaf it was created for, else 0
  anyTriggerTime,             \* time of the latest redirection trigger of any kind
  editedSinceTick,            \* leaves edited by the user after their immunity window
  cleanedByTick,              \* leaves whose watch a tick of the monitor has cleaned up
  openedPinned,               \* leaves created by openPinnedSearchWithLastState
  createdRedirectable         \* sidebar search leaves created with redirection on, grace over

pluginVars ==
  << now, phase, settings, stored, leafStatus, leafMain, viewType, leafState,
     pinned, hidden, monitored, vsMonitoring, processedLeaves, leafCreationTime,
     leafWatchIntervals, leafBaselineState, allIntervalIds, liveIntervals,
     nextIntervalId, lastRedirectionTriggerTime, isInitialLoad,
     initializationCompleteTime, originalExecuteCommand, executeCommand,
     passTimers, detachTimers, reapplyTimers, applyTasks, createTasks,
     openTasks,
     procCount, replacementOf, anyTriggerTime,
     editedSinceTick, cleanedByTick, openedPinned, createdRedirectable >>

mainTsVars ==
  << initializedSearchLeaves, leafLastStateStr, initTasks, savedBeforeOpen >>

locationVars ==
  << parentOf, rootSplit, leafLocationCache, layoutHandlers, classified,
     cachedBeforeLayoutChange >>

vars == << pluginVars, sanInput, sanResults, mainTsVars, locationVars >>

\* the current world; ok turns FALSE when a handler would exceed a bound
World ==
  [ now |-> now, phase |-> phase, settings |-> settings, stored |-> stored,
    leafStatus |-> leafStatus, leafMain |-> leafMain, viewType |-> viewType,
    leafState |-> leafState, pinned |-> pinned, hidden |-> hidden,
    monitored |-> monitored, vsMonitoring |-> vsMonitoring,
    processedLeaves |-> processedLeaves, leafCreationTime |-> leafCreationTime,
    leafWatchIntervals |-> leafWatchIntervals,
    leafBaselineState |-> leafBaselineState, allIntervalIds |-> allIntervalIds,
    liveIntervals |-> liveIntervals, nextIntervalId |-> nextIntervalId,
    lastRedirectionTriggerTime |-> lastRedirectionTriggerTime,
    isInitialLoad |-> isInitialLoad,
    initializationCompleteTime |-> initializationCompleteTime,
    originalExecuteCommand |-> originalExecuteCommand,
    executeCommand |-> executeCommand, passTimers |-> passTimers,
    detachTimers |-> detachTimers, reapplyTimers |-> reapplyTimers,
    applyTasks |-> applyTasks, createTasks |-> createTasks,
    openTasks |-> openTasks,
    initializedSearchLeaves |-> initializedSearchLeaves,
    leafLastStateStr |-> leafLastStateStr,
    initTasks |-> initTasks, savedBeforeOpen |-> savedBeforeOpen,
    procCount |-> procCount,
    replacementOf |-> replacementOf, anyTriggerTime |-> anyTriggerTime,
    editedSinceTick |-> editedSinceTick,
    cleanedByTick |-> cleanedByTick,
    openedPinned |-> openedPinned,
    createdRedirectable |-> createdRedirectable,
    ok |-> TRUE ]

\* the world w is within the bounds of the model
CanBecome(w) ==
  /\ w.ok
  /\ w.passTimers <= MaxPassTimers
  /\ Cardinality(w.applyTasks) + Cardinality(w.createTasks)
       + Cardinality(w.openTasks) + Cardinality(w.initTasks) <= MaxTasks

\* the next state is the world w
Becomes(w) ==
  /\ CanBecome(w)
  /\ now' = w.now /\ phase' = w.phase /\ settings' = w.settings
  /\ stored' = w.stored /\ leafStatus' = w.leafStatus /\ leafMain' = w.leafMain
  /\ viewType' = w.viewType /\ leafState' = w.leafState /\ pinned' = w.pinned
  /\ hidden' = w.hidden /\ monitored' = w.monitored
  /\ vsMonitoring' = w.vsMonitoring /\ processedLeaves' = w.processedLeaves
  /\ leafCreationTime' = w.leafCreationTime
  /\ leafWatchIntervals' = w.leafWatchIntervals
  /\ leafBaselineState' = w.leafBaselineState
  /\ allIntervalIds' = w.allIntervalIds /\ liveIntervals' = w.liveIntervals
  /\ nextIntervalId' = w.nextIntervalId
  /\ lastRedirectionTriggerTime' = w.lastRedirectionTriggerTime
  /\ isInitialLoad' = w.isInitialLoad
  /\ initializationCompleteTime' = w.initializationCompleteTime
  /\ originalExecuteCommand' = w.originalExecuteCommand
  /\ executeCommand' = w.executeCommand /\ passTimers' = w.passTimers
  /\ detachTimers' = w.detachTimers /\ reapplyTimers' = w.reapplyTimers
  /\ applyTasks' = w.applyTasks /\ createTasks' = w.createTasks
  /\ openTasks' = w.openTasks
  /\ procCount' = w.procCount
  /\ replacementOf' = w.replacementOf /\ anyTriggerTime' = w.anyTriggerTime
  /\ editedSinceTick' = w.editedSinceTick
  /\ cleanedByTick' = w.cleanedByTick
  /\ openedPinned' = w.openedPinned
  /\ createdRedirectable' = w.createdRedirectable
  /\ initializedSearchLeaves' = w.initializedSearchLeaves
  /\ leafLastStateStr' = w.leafLastStateStr
  /\ initTasks' = w.initTasks /\ savedBeforeOpen' = w.savedBeforeOpen
  /\ UNCHANGED <<sanInput, sanResults, locationVars>>

\* the fields of a newly constructed plugin whose settings are defaults
InitWith(defaults) ==
  /\ now = StartTime
  /\ phase = "constructed"
  /\ settings = defaults
  /\ stored \in StoredAtStart
  /\ leafStatus = [l \in Leaves |-> "free"]
  /\ leafMain = [l \in Leaves |-> TRUE]
  /\ viewType = [l \in Leaves |-> "empty"]
  /\ leafState = [l \in Leaves |-> Null]
  /\ pinned = [l \in Leaves |-> FALSE]
  /\ hidden = [l \in Leaves |-> FALSE]
  /\ monitored = {}
  /\ vsMonitoring = FALSE
  /\ processedLeaves = {}
  /\ leafCreationTime = [l \in Leaves |-> 0]
  /\ leafWatchIntervals = [l \in Leaves |-> 0]
  /\ leafBaselineState = [l \in Leaves |-> NoBaseline]
  /\ allIntervalIds = <<>>
  /\ liveIntervals = {}
  /\ nextIntervalId = 1
  /\ lastRedirectionTriggerTime = 0
  /\ isInitialLoad = TRUE
  /\ initializationCompleteTime = 0
  /\ originalExecuteCommand = "null"
  /\ executeCommand = "host"
  /\ passTimers = 0
  /\ detachTimers = {}
  /\ reapplyTimers = {}
  /\ applyTasks = {}
  /\ createTasks = {}
  /\ openTasks = {}
  /\ procCount = [l \in Leaves |-> 0]
  /\ replacementOf = [l \in Leaves |-> 0]
  /\ anyTriggerTime = 0
  /\ editedSinceTick = {}
  /\ cleanedByTick = {}
  /\ openedPinned = {}
  /\ createdRedirectable = {}

\* the parent chain of a leaf whose parent is null, and no call of
\* isInMainArea so far
NotClassified == [calls |-> 0, main |-> FALSE, inspected |-> 0,
                  fromCache |-> FALSE, stale |-> FALSE, agrees |-> TRUE]

NoAncestry ==
  /\ parentOf = [i \in 0..MaxChain |-> 0]
  /\ rootSplit = 1
  /\ leafLocationCache = "none"
  /\ layoutHandlers = "none"
  /\ classified = NotClassified
  /\ cachedBeforeLayoutChange = FALSE

InitPlugin ==
  /\ InitWith(DEFAULT_SETTINGS)
  /\ NoAncestry
  /\ initializedSearchLeaves = {}
  /\ leafLastStateStr = [l \in Leaves |-> NoBaseline]
  /\ initTasks = {}
  /\ savedBeforeOpen = [l \in Leaves |-> Null]

Init ==
  /\ InitPlugin
  /\ sanInput = Null
  /\ sanResults = << >>

(* --------------------------- host workspace ---------------------------- *)
RECURSIVE SortedSeq(_)
SortedSeq(S) ==
  IF S = {} THEN <<>>
  ELSE LET m == CHOOSE x \in S : \A y \in S : x <= y
       IN  <<m>> \o SortedSeq(S \ {m})

RECURSIVE SeqWithout(_, _)
SeqWithout(seq, x) ==
  IF seq = <<>> THEN <<>>
  ELSE IF Head(seq) = x THEN Tail(seq)
  ELSE <<Head(seq)>> \o SeqWithout(Tail(seq), x)

OpenLeaves(w) == {l \in Leaves : w.leafStatus[l] = "open"}
FreeLeaves(w) == {l \in Leaves : w.leafStatus[l] = "free"}

\* workspace.getLeavesOfType("search"): document order is slot order
getLeavesOfType(w) ==
  SortedSeq({l \in OpenLeaves(w) : w.viewType[l] = "search"})

\* leaf.getViewState()
getViewState(w, l) == [type |-> w.viewType[l], state |-> w.leafState[l]]

\* the host's own leaf.setViewState(vs), once it has completed
originalSetViewState(w, l, vs) ==
  IF w.leafStatus[l] # "open" THEN w
  ELSE [w EXCEPT !.viewType[l] = vs.type, !.leafState[l] = vs.state]

(* ------------------------------- plugin -------------------------------- *)
isInMainArea(w, l) == w.leafMain[l]

\* the loop of isInMainArea with the test depth <= 10
RECURSIVE WalkOneTooFar(_, _, _, _)
WalkOneTooFar(par, root, parent, depth) ==
  IF parent # 0 /\ depth <= MaxDepth
  THEN IF parent = root THEN [main |-> TRUE, inspected |-> depth + 1]
       ELSE WalkOneTooFar(par, root, par[parent], depth + 1)
  ELSE [main |-> FALSE, inspected |-> depth]

\* the loop of isInMainArea: from parent at the given depth, over the parent
\* pointers par, looking for root; inspected counts the items compared
RECURSIVE WalkAncestors(_, _, _, _)
WalkAncestors(par, root, parent, depth) ==
  IF parent # 0 /\ depth < MaxDepth
  THEN IF parent = root THEN [main |-> TRUE, inspected |-> depth + 1]
       ELSE WalkAncestors(par, root, par[parent], depth + 1)
  ELSE [main |-> FALSE, inspected |-> depth]

\* isInMainArea(leaf) with the leaf's cache entry, the parent pointers and
\* the root split as they are at the call: the result and the new entry
isInMainAreaCached(cache, par, root) ==
  IF cache # "none"
  THEN [main |-> cache = "main", inspected |-> 0, fromCache |-> TRUE,
        cache |-> cache]
  ELSE LET r == WalkAncestors(par, root, par[0], 0)
       IN  [main |-> r.main, inspected |-> r.inspected, fromCache |-> FALSE,
            cache |-> IF r.main THEN "main" ELSE "sidebar"]

clearLocationCache == "none"

isInInitializationGracePeriod(w) ==
  \/ w.isInitialLoad
  \/ w.now - w.initializationCompleteTime < gracePeriod

shouldPreventDuplicateRedirection(w) ==
  w.now - w.lastRedirectionTriggerTime < duplicatePreventionWindow

\* observation only: a redirection trigger happens now
NoteTrigger(w) == [w EXCEPT !.anyTriggerTime = w.now]

triggerRedirection(w) ==
  IF shouldPreventDuplicateRedirection(w) THEN NoteTrigger(w)
  ELSE NoteTrigger([w EXCEPT !.lastRedirectionTriggerTime = w.now,
                             !.passTimers = @ + 1])

\* sanitizeSearchStateForPersistence that hands every state back as it is
sanitizeReturningState(w, state) == state

\* sanitizeSearchStateForPersistence without its rememberQuery line
sanitizeIgnoringRememberQuery(w, state) ==
  IF state = Null THEN state
  ELSE [k \in DOMAIN state \ {"query"} |-> state[k]]

sanitizeSearchStateForPersistence(w, state) ==
  IF state = Null THEN state
  ELSE IF w.settings.rememberQuery THEN state
  ELSE [k \in DOMAIN state \ {"query"} |-> state[k]]

\* saveSettings that writes nothing
saveNothing(w) == w

saveSettings(w) == [w EXCEPT !.stored = w.settings]

\* startIntelligentMonitoring without its first line, the has(leaf) guard
startMonitoringUnguarded(w, l) ==
  IF w.nextIntervalId > MaxIntervals THEN [w EXCEPT !.ok = FALSE]
  ELSE LET id == w.nextIntervalId
       IN  [w EXCEPT !.liveIntervals = @ \cup {[id |-> id, leaf |-> l]},
                     !.nextIntervalId = id + 1,
                     !.leafWatchIntervals[l] = id,
                     !.allIntervalIds = Append(@, id)]

startIntelligentMonitoring(w, l) ==
  IF w.leafWatchIntervals[l] # 0 THEN w
  ELSE IF w.nextIntervalId > MaxIntervals THEN [w EXCEPT !.ok = FALSE]
  ELSE LET id == w.nextIntervalId
       IN  [w EXCEPT !.liveIntervals = @ \cup {[id |-> id, leaf |-> l]},
                     !.nextIntervalId = id + 1,
                     !.leafWatchIntervals[l] = id,
                     !.allIntervalIds = Append(@, id)]

cleanupLeafTracking(w, l) ==
  LET id == w.leafWatchIntervals[l]
      w1 == IF id = 0 THEN w
            ELSE [w EXCEPT !.liveIntervals = {t \in @ : t.id # id},
                           !.leafWatchIntervals[l] = 0,
                           !.allIntervalIds = SeqWithout(@, id)]
  IN  [w1 EXCEPT !.leafCreationTime[l] = 0,
                 !.leafBaselineState[l] = NoBaseline]

\* createSearchTabInMainArea opening its tab next to the leaf it replaces, in
\* the sidebar
createSearchTabInSidebar(w, query, searchState, src) ==
  IF FreeLeaves(w) = {} THEN [w EXCEPT !.ok = FALSE]
  ELSE LET leaf == CHOOSE x \in FreeLeaves(w) : \A y \in FreeLeaves(w) : x <= y
           base == IF searchState = Null THEN EmptyState ELSE searchState
           finalState == IF query # "" THEN WithQuery(base, query) ELSE base
       IN  [w EXCEPT !.leafStatus[leaf] = "open", !.leafMain[leaf] = FALSE,
                     !.viewType[leaf] = "empty", !.leafState[leaf] = Null,
                     !.replacementOf[leaf] = src,
                     !.createTasks = @ \cup {[leaf |-> leaf, state |-> finalState]}]

createSearchTabInMainArea(w, query, searchState, src) ==
  IF FreeLeaves(w) = {} THEN [w EXCEPT !.ok = FALSE]
  ELSE LET leaf == CHOOSE x \in FreeLeaves(w) : \A y \in FreeLeaves(w) : x <= y
           base == IF searchState = Null THEN EmptyState ELSE searchState
           finalState == IF query # "" THEN WithQuery(base, query) ELSE base
       IN  [w EXCEPT !.leafStatus[leaf] = "open", !.leafMain[leaf] = TRUE,
                     !.viewType[leaf] = "empty", !.leafState[leaf] = Null,
                     !.replacementOf[leaf] = src,
                     !.createTasks = @ \cup {[leaf |-> leaf, state |-> finalState]}]

\* redirectSidebarSearchToMainArea closing the sidebar leaf without having
\* asked for the main-area tab
redirectWithoutReplacement(w, leaf) ==
  [w EXCEPT !.processedLeaves = @ \cup {leaf}, !.hidden[leaf] = TRUE,
            !.detachTimers = @ \cup {leaf}]

redirectSidebarSearchToMainArea(w, leaf) ==
  LET w1 == [w EXCEPT !.processedLeaves = @ \cup {leaf}, !.hidden[leaf] = TRUE]
      searchState == getViewState(w1, leaf).state
      searchQuery == QueryOf(searchState)
      w2 == createSearchTabInMainArea(w1, searchQuery, searchState, leaf)
  IN  [w2 EXCEPT !.detachTimers = @ \cup {leaf}]

handleSearchCommandExecution(w) ==
  LET sidebarSearchViews ==
        SelectSeq(getLeavesOfType(w), LAMBDA l : ~isInMainArea(w, l))
  IN  IF Len(sidebarSearchViews) > 0
      THEN redirectSidebarSearchToMainArea(w, sidebarSearchViews[1])
      ELSE w

\* the test of the wrapper without its isInInitializationGracePeriod conjunct
InterceptsInGracePeriod(w, l, vs) ==
  /\ l \in w.monitored
  /\ vs.type = "search"
  /\ ~isInMainArea(w, l)
  /\ w.settings.openBookmarksInMainArea

\* the wrapper installed by monitorLeafViewState short-circuits this call
Intercepts(w, l, vs) ==
  /\ l \in w.monitored
  /\ vs.type = "search"
  /\ ~isInMainArea(w, l)
  /\ ~isInInitializationGracePeriod(w)
  /\ w.settings.openBookmarksInMainArea

\* leaf.setViewState(vs) by a caller that does not use the result
leafSetViewState(w, l, vs) ==
  IF Intercepts(w, l, vs)
  THEN LET searchState == IF vs.state = Null THEN EmptyState ELSE vs.state
       IN  createSearchTabInMainArea(NoteTrigger(w), QueryOf(searchState),
                                     searchState, l)
  ELSE originalSetViewState(w, l, vs)

setupCommandInterception(w) ==
  [w EXCEPT !.originalExecuteCommand = w.executeCommand,
            !.executeCommand = "wrapper"]

setupViewStateMonitoring(w) ==
  [w EXCEPT !.monitored = @ \cup {l \in OpenLeaves(w) : ~isInMainArea(w, l)},
            !.vsMonitoring = TRUE]

\* the tail of onload, after the initial handleLayoutChanges has returned
OnloadTail(w) ==
  LET w1 == IF w.settings.openBookmarksInMainArea
            THEN setupCommandInterception(setupViewStateMonitoring(w))
            ELSE w
  IN  [w1 EXCEPT !.isInitialLoad = FALSE,
                 !.initializationCompleteTime = w.now,
                 !.phase = "running"]

\* applySettingsToNewLeaf up to its await: the view state it writes
NewStateFor(w, leaf) ==
  LET current == getViewState(w, leaf)
      desiredState ==
        IF w.settings.rememberQuery THEN Spread(w.settings.lastSearchState)
        ELSE WithQuery(w.settings.lastSearchState, QueryOf(current.state))
  IN  [type |-> current.type, state |-> desiredState]

\* the loop below with a processNewSearchLeaf that lacks the return after
\* triggerRedirection
RECURSIVE LoopWithoutEarlyReturn(_, _, _)
LoopWithoutEarlyReturn(w, leaves, onload) ==
  IF leaves = <<>> THEN (IF onload THEN OnloadTail(w) ELSE w)
  ELSE
    LET leaf == Head(leaves)
        rest == Tail(leaves)
    IN
    IF leaf \in w.processedLeaves THEN LoopWithoutEarlyReturn(w, rest, onload)
    ELSE
      LET w0 == [w EXCEPT !.processedLeaves = @ \cup {leaf},
                          !.leafCreationTime[leaf] = w.now,
                          !.procCount[leaf] = IF @ < 2 THEN @ + 1 ELSE @]
          w1 == IF /\ ~isInInitializationGracePeriod(w0)
                   /\ w0.settings.openBookmarksInMainArea
                   /\ ~isInMainArea(w0, leaf)
                THEN triggerRedirection(w0) ELSE w0
      IN
      IF Truthy(w1.settings.lastSearchState)
      THEN [w1 EXCEPT !.applyTasks = @ \cup
              {[leaf |-> leaf, vs |-> NewStateFor(w1, leaf), rest |-> rest,
                onload |-> onload, awaits |-> 0]}]
      ELSE LoopWithoutEarlyReturn(startIntelligentMonitoring(w1, leaf), rest, onload)

\* the for loop of handleLayoutChanges over the leaves still to visit, each
\* iteration running processNewSearchLeaf; it stops at the await inside
\* applySettingsToNewLeaf, leaving a task that resumes it
RECURSIVE RunLayoutLoop(_, _, _)
RunLayoutLoop(w, leaves, onload) ==
  IF leaves = <<>> THEN (IF onload THEN OnloadTail(w) ELSE w)
  ELSE
    LET leaf == Head(leaves)
        rest == Tail(leaves)
    IN
    IF leaf \in w.processedLeaves THEN RunLayoutLoop(w, rest, onload)
    ELSE
      LET w1 == [w EXCEPT !.processedLeaves = @ \cup {leaf},
                          !.leafCreationTime[leaf] = w.now,
                          !.procCount[leaf] = IF @ < 2 THEN @ + 1 ELSE @]
      IN
      IF /\ ~isInInitializationGracePeriod(w1)
         /\ w1.settings.openBookmarksInMainArea
         /\ ~isInMainArea(w1, leaf)
      THEN RunLayoutLoop(triggerRedirection(w1), rest, onload)
      ELSE IF Truthy(w1.settings.lastSearchState)
      THEN LET vs == NewStateFor(w1, leaf)
               hit == Intercepts(w1, leaf, vs)
               w2 == IF hit
                     THEN createSearchTabInMainArea(NoteTrigger(w1),
                            QueryOf(vs.state), vs.state, leaf)
                     ELSE w1
               awaits == IF hit /\ w2.ok
                         THEN CHOOSE x \in FreeLeaves(w1) :
                                \A y \in FreeLeaves(w1) : x <= y
                         ELSE 0
           IN  [w2 EXCEPT !.applyTasks = @ \cup
                  {[leaf |-> leaf, vs |-> vs, rest |-> rest, onload |-> onload,
                    awaits |-> awaits]}]
      ELSE RunLayoutLoop(startIntelligentMonitoring(w1, leaf), rest, onload)

handleLayoutChanges(w, onload) ==
  IF ~w.settings.openBookmarksInMainArea
  THEN (IF onload THEN OnloadTail(w) ELSE w)
  ELSE RunLayoutLoop(w, getLeavesOfType(w), onload)

\* processNewSearchLeaf resumed after the await of applySettingsToNewLeaf
ResumeApply(w, t) ==
  LET w1 == IF t.awaits = 0 THEN originalSetViewState(w, t.leaf, t.vs) ELSE w
      w2 == [w1 EXCEPT
               !.applyTasks = @ \ {t},
               !.leafBaselineState[t.leaf] =
                  JSONstringify(sanitizeSearchStateForPersistence(w1, t.vs.state)),
               !.reapplyTimers = @ \cup {[leaf |-> t.leaf, vs |-> t.vs]}]
  IN  RunLayoutLoop(startIntelligentMonitoring(w2, t.leaf), t.rest, t.onload)

\* createSearchTabInMainArea resumed after its await, pinning the tab without
\* reading autoPinSearchTab
ResumeCreateAlwaysPinned(w, t) ==
  LET w1 == originalSetViewState(w, t.leaf, [type |-> "search", state |-> t.state])
  IN  [w1 EXCEPT !.createTasks = @ \ {t}, !.pinned[t.leaf] = TRUE]

\* createSearchTabInMainArea resumed after its await
ResumeCreate(w, t) ==
  LET w1 == originalSetViewState(w, t.leaf, [type |-> "search", state |-> t.state])
  IN  [w1 EXCEPT !.createTasks = @ \ {t},
                 !.pinned[t.leaf] = @ \/ w.settings.autoPinSearchTab]

handleExistingSearchLeafActivation(w, leaf) ==
  IF isInInitializationGracePeriod(w) THEN w
  ELSE IF w.settings.openBookmarksInMainArea /\ ~isInMainArea(w, leaf)
  THEN triggerRedirection(w)
  ELSE w

handleActiveLeafChanges(w, activeLeaf) ==
  IF \/ w.viewType[activeLeaf] # "search"
     \/ ~w.settings.openBookmarksInMainArea
  THEN w
  ELSE IF ~isInMainArea(w, activeLeaf) /\ activeLeaf \in w.processedLeaves
  THEN handleExistingSearchLeafActivation(w, activeLeaf)
  ELSE w

isSearchCommand(commandId) == commandId \in SearchCommands

\* what a call of app.commands.executeCommand does in world w: the host's
\* function alone, the wrapper around the host's function, the wrapper
\* calling null (TypeError), or the wrapper calling itself without end
\* (RangeError: the call stack overflows before anything has run)
DispatchOutcome(w) ==
  IF w.executeCommand = "host" THEN "hostOnly"
  ELSE IF w.originalExecuteCommand = "null" THEN "TypeError"
  ELSE IF w.originalExecuteCommand = "wrapper" THEN "RangeError"
  ELSE "wrapped"

\* the function installed by setupCommandInterception
executeCommandWrapper(w, commandId) ==
  IF w.originalExecuteCommand # "host" THEN w
  ELSE
    LET w1 == w   \* the host's own executeCommand has run
    IN  IF isSearchCommand(commandId)
        THEN LET currentSidebarSearchViews ==
                   {l \in OpenLeaves(w1) :
                      w1.viewType[l] = "search" /\ ~isInMainArea(w1, l)}
                 w2 == [w1 EXCEPT
                          !.processedLeaves = @ \ currentSidebarSearchViews,
                          !.passTimers = @ + 1]
             IN  NoteTrigger(w2)
        ELSE w1

\* monitor without its test of timeSinceCreation
monitorWithoutImmunity(w, leaf) ==
  IF w.viewType[leaf] # "search"
  THEN cleanupLeafTracking([w EXCEPT !.cleanedByTick = @ \cup {leaf}], leaf)
  ELSE
    LET currentState == getViewState(w, leaf).state
        w0 == [w EXCEPT !.editedSinceTick = @ \ {leaf}]
    IN  IF ~Truthy(currentState) THEN w0
        ELSE LET currentStr ==
                   JSONstringify(sanitizeSearchStateForPersistence(w0, currentState))
                 baselineStr == w0.leafBaselineState[leaf]
             IN  IF currentStr # baselineStr /\ baselineStr # NoBaseline
                 THEN LET w1 == [w0 EXCEPT !.settings.lastSearchState =
                                   sanitizeSearchStateForPersistence(w0, currentState)]
                      IN  [saveSettings(w1) EXCEPT
                             !.leafBaselineState[leaf] = currentStr]
                 ELSE w0

\* the monitor closure of startIntelligentMonitoring, one tick
monitor(w, leaf) ==
  IF w.viewType[leaf] # "search"
  THEN cleanupLeafTracking([w EXCEPT !.cleanedByTick = @ \cup {leaf}], leaf)
  ELSE IF w.now - w.leafCreationTime[leaf] < immunityPeriod THEN w
  ELSE
    LET currentState == getViewState(w, leaf).state
        w0 == [w EXCEPT !.editedSinceTick = @ \ {leaf}]
    IN  IF ~Truthy(currentState) THEN w0
        ELSE LET currentStr ==
                   JSONstringify(sanitizeSearchStateForPersistence(w0, currentState))
                 baselineStr == w0.leafBaselineState[leaf]
             IN  IF currentStr # baselineStr /\ baselineStr # NoBaseline
                 THEN LET w1 == [w0 EXCEPT !.settings.lastSearchState =
                                   sanitizeSearchStateForPersistence(w0, currentState)]
                      IN  [saveSettings(w1) EXCEPT
                             !.leafBaselineState[leaf] = currentStr]
                 ELSE w0

onunload(w) ==
  LET w1 == [w EXCEPT
               !.liveIntervals = {},
               !.allIntervalIds = <<>>,
               !.processedLeaves = {},
               !.leafCreationTime = [l \in Leaves |-> 0],
               !.leafWatchIntervals = [l \in Leaves |-> 0],
               !.leafBaselineState = [l \in Leaves |-> NoBaseline],
               !.vsMonitoring = FALSE,
               !.phase = "unloaded"]
  IN  IF w1.originalExecuteCommand # "null"
      THEN [w1 EXCEPT !.executeCommand = w1.originalExecuteCommand,
                      !.originalExecuteCommand = "null"]
      ELSE w1

\* loadSettings with the arguments of Object.assign in the other order
loadSettingsDefaultsLast(w) ==
  [w EXCEPT !.settings = DEFAULT_SETTINGS @@ w.stored]

loadSettings(w) == [w EXCEPT !.settings = w.stored @@ DEFAULT_SETTINGS]

\* app.workspace.activeLeaf is read when a handler runs: 0 is no active leaf
getAnySearchState(w, activeLeaf) ==
  LET leaves == getLeavesOfType(w)
  IN  IF Len(leaves) = 0 THEN Null
      ELSE LET leaf == IF activeLeaf # 0 /\ w.viewType[activeLeaf] = "search"
                       THEN activeLeaf ELSE leaves[1]
           IN  getViewState(w, leaf).state

\* saveCurrentSearchState without its test if (st)
saveWithoutStateTest(w, activeLeaf) ==
  saveSettings([w EXCEPT !.settings.lastSearchState =
     sanitizeSearchStateForPersistence(w, getAnySearchState(w, activeLeaf))])

\* callback of the command save-current-search-state
saveCurrentSearchState(w, activeLeaf) ==
  LET st == getAnySearchState(w, activeLeaf)
  IN  IF Truthy(st)
      THEN saveSettings([w EXCEPT !.settings.lastSearchState =
                           sanitizeSearchStateForPersistence(w, st)])
      ELSE w

\* clearSavedSearchState without its call of saveSettings
clearOnlyInMemory(w) == [w EXCEPT !.settings.lastSearchState = Null]

\* callback of the command clear-saved-search-state and of the Clear button
clearSavedSearchState(w) ==
  saveSettings([w EXCEPT !.settings.lastSearchState = Null])

\* pinnedViewState without the query override of its second branch
pinnedViewStateKeepingQuery(w) == Spread(w.settings.lastSearchState)

\* the state openPinnedSearchWithLastState gives the new search view
pinnedViewState(w) ==
  IF w.settings.rememberQuery THEN Spread(w.settings.lastSearchState)
  ELSE WithQuery(w.settings.lastSearchState, "")

\* openPinnedSearchWithLastState up to its await
openPinnedSearchWithLastState(w) ==
  IF FreeLeaves(w) = {} THEN [w EXCEPT !.ok = FALSE]
  ELSE LET leaf == CHOOSE x \in FreeLeaves(w) : \A y \in FreeLeaves(w) : x <= y
       IN  [w EXCEPT !.leafStatus[leaf] = "open", !.leafMain[leaf] = TRUE,
                     !.viewType[leaf] = "empty", !.leafState[leaf] = Null,
                     !.openedPinned = @ \cup {leaf},
                     !.openTasks = @ \cup {[leaf |-> leaf,
                                            state |-> pinnedViewState(w)]}]

\* ResumeOpen without the call leaf.setPinned(true)
ResumeOpenWithoutPin(w, t) ==
  LET w1 == leafSetViewState(w, t.leaf, [type |-> "search", state |-> t.state])
  IN  [w1 EXCEPT !.openTasks = @ \ {t}]

\* openPinnedSearchWithLastState resumed after its await
ResumeOpen(w, t) ==
  LET w1 == leafSetViewState(w, t.leaf, [type |-> "search", state |-> t.state])
  IN  [w1 EXCEPT !.openTasks = @ \ {t},
                 !.pinned[t.leaf] = @ \/ w.settings.autoPinSearchTab]

(* ------------------------- src/main.ts (short variant) ------------------ *)
(* The plugin class of src/main.ts.  Its getAnySearchState,                *)
(* sanitizeSearchStateForPersistence and saveSettings have the text of the *)
(* extended class and are the operators above.                             *)
main_DEFAULT_SETTINGS == [lastSearchState |-> Null, rememberQuery |-> FALSE]

main_loadSettings(w) == [w EXCEPT !.settings = w.stored @@ main_DEFAULT_SETTINGS]

\* handler of layout-change and of active-leaf-change, registered first
snapshotSearchState(w, activeLeaf) ==
  LET st == getAnySearchState(w, activeLeaf)
  IN  IF Truthy(st)
      THEN saveSettings([w EXCEPT !.settings.lastSearchState =
                           sanitizeSearchStateForPersistence(w, st)])
      ELSE w

\* ensureWatchingLeaf: window.setInterval(poll, 800) unless already polling
ensureWatchingLeaf(w, leaf) ==
  IF w.leafWatchIntervals[leaf] # 0 THEN w
  ELSE IF w.nextIntervalId > MaxIntervals THEN [w EXCEPT !.ok = FALSE]
  ELSE LET id == w.nextIntervalId
       IN  [w EXCEPT !.liveIntervals = @ \cup {[id |-> id, leaf |-> leaf]},
                     !.nextIntervalId = id + 1,
                     !.leafWatchIntervals[leaf] = id]

\* the view state tryInitializeNewSearchLeaves writes to a leaf
InitialViewState(w, leaf) ==
  [type |-> getViewState(w, leaf).type,
   state |-> IF w.settings.rememberQuery
             THEN Spread(w.settings.lastSearchState)
             ELSE WithQuery(w.settings.lastSearchState, "")]

\* the for loop of tryInitializeNewSearchLeaves over the leaves still to
\* visit; it stops at the await on leaf.setViewState
RECURSIVE InitializeLoop(_, _)
InitializeLoop(w, leaves) ==
  IF leaves = <<>> THEN w
  ELSE
    LET leaf == Head(leaves)
        rest == Tail(leaves)
    IN
    IF leaf \in w.initializedSearchLeaves THEN InitializeLoop(w, rest)
    ELSE
      LET w1 == [w EXCEPT !.initializedSearchLeaves = @ \cup {leaf}]
      IN  IF Truthy(w1.settings.lastSearchState)
          THEN [w1 EXCEPT !.initTasks = @ \cup
                  {[leaf |-> leaf, vs |-> InitialViewState(w1, leaf),
                    rest |-> rest]}]
          ELSE InitializeLoop(ensureWatchingLeaf(w1, leaf), rest)

\* handler of layout-change and of active-leaf-change, registered second
tryInitializeNewSearchLeaves(w) == InitializeLoop(w, getLeavesOfType(w))

\* tryInitializeNewSearchLeaves resumed after its await
ResumeInitialize(w, t) ==
  LET w1 == originalSetViewState(w, t.leaf, t.vs)
      w2 == [w1 EXCEPT !.initTasks = @ \ {t}]
  IN  InitializeLoop(ensureWatchingLeaf(w2, t.leaf), t.rest)

\* the poll closure of ensureWatchingLeaf, one tick
poll(w, leaf) ==
  IF w.viewType[leaf] # "search"
  THEN [w EXCEPT !.liveIntervals = {t \in @ : t.leaf # leaf},
                 !.leafWatchIntervals[leaf] = 0,
                 !.leafLastStateStr[leaf] = NoBaseline]
  ELSE
    LET currentState == getViewState(w, leaf).state
        sanitizedState == sanitizeSearchStateForPersistence(w, currentState)
        currentStr == IF sanitizedState = Null THEN "null"
                      ELSE JSONstringify(sanitizedState)
    IN  IF currentStr # w.leafLastStateStr[leaf]
        THEN saveSettings([w EXCEPT !.leafLastStateStr[leaf] = currentStr,
                                    !.settings.lastSearchState = sanitizedState])
        ELSE w

\* onload: the event handlers are registered before the first await that
\* yields to the host
main_onload(w) ==
  tryInitializeNewSearchLeaves([main_loadSettings(w) EXCEPT !.phase = "running"])

(* -------------------------------- actions ------------------------------ *)
\* Plugin.onload: loadSettings, command and event registration, the initial
\* handleLayoutChanges and, once that has returned, the rest of onload
Onload ==
  /\ phase = "constructed"
  /\ Becomes(handleLayoutChanges([loadSettings(World) EXCEPT !.phase = "loading"],
                                 TRUE))

Unload ==
  /\ phase = "running"
  /\ Becomes(onunload(World))

\* the host emits layout-change: handleLayoutChanges, then the callback
\* registered by setupViewStateMonitoring
LayoutChange ==
  /\ phase \in {"loading", "running"}
  /\ LET w1 == handleLayoutChanges(World, FALSE)
         w2 == IF w1.vsMonitoring
               THEN [w1 EXCEPT !.monitored =
                       @ \cup {l \in OpenLeaves(w1) : ~isInMainArea(w1, l)}]
               ELSE w1
     IN  Becomes(w2)

\* the host emits active-leaf-change with leaf l active
ActiveLeafChange(l) ==
  /\ phase \in {"loading", "running"}
  /\ leafStatus[l] = "open"
  /\ Becomes(handleActiveLeafChanges(World, l))

\* the host (session restore, a core command, a bookmark) opens a search view
\* in a new leaf of the main area or of a sidebar
HostOpenSearchLeaf(main) ==
  /\ phase # "unloaded"
  /\ FreeLeaves(World) # {}
  /\ LET leaf == CHOOSE x \in FreeLeaves(World) : \A y \in FreeLeaves(World) : x <= y
         redirectable == /\ ~main /\ phase = "running"
                         /\ settings.openBookmarksInMainArea
                         /\ ~isInInitializationGracePeriod(World)
     IN  Becomes([World EXCEPT
           !.leafStatus[leaf] = "open", !.leafMain[leaf] = main,
           !.viewType[leaf] = "search", !.leafState[leaf] = [query |-> "foo"],
           !.createdRedirectable = IF redirectable THEN @ \cup {leaf} ELSE @])

\* the host calls leaf.setViewState({type: "search", ...}) on an existing
\* search leaf: a bookmarked search opened in the leaf that already shows search
BookmarkOpensSearch(l) ==
  /\ leafStatus[l] = "open"
  /\ viewType[l] = "search"
  /\ Becomes(leafSetViewState(World, l,
               [type |-> "search", state |-> [query |-> "foo"]]))

\* the user navigates a watched search leaf to a view of another type
UserNavigatesAway(l) ==
  /\ leafStatus[l] = "open"
  /\ viewType[l] = "search"
  /\ leafWatchIntervals[l] # 0
  /\ Becomes(leafSetViewState(World, l, [type |-> "other", state |-> Null]))

\* the user closes the tab or the sidebar pane of leaf l: the host detaches it
UserClosesLeaf(l) ==
  /\ phase # "unloaded"
  /\ leafStatus[l] = "open"
  /\ Becomes([World EXCEPT !.leafStatus[l] = "detached"])

\* the host shows the search view again in a leaf that had left it
HostShowsSearchAgain(l) ==
  /\ leafStatus[l] = "open"
  /\ viewType[l] = "other"
  /\ Becomes(leafSetViewState(World, l,
               [type |-> "search", state |-> [query |-> "foo"]]))

\* the user changes a toggle, the sort order or the query of a search view
UserEdit(l, s) ==
  /\ phase # "unloaded"
  /\ leafStatus[l] = "open" /\ viewType[l] = "search" /\ ~hidden[l]
  /\ s # leafState[l]
  /\ LET late == /\ leafWatchIntervals[l] # 0
                 /\ now - leafCreationTime[l] >= immunityPeriod
     IN  Becomes([World EXCEPT
           !.leafState[l] = s,
           !.editedSinceTick = IF late THEN @ \cup {l} ELSE @])

\* app.commands.executeCommand(c)
Dispatch(c) ==
  /\ executeCommand = "wrapper"
  /\ Becomes(executeCommandWrapper(World, c))

PollTick(t) ==
  /\ t \in liveIntervals
  /\ Becomes(monitor(World, t.leaf))

PassTimerFires ==
  /\ passTimers > 0
  /\ Becomes(handleSearchCommandExecution([World EXCEPT !.passTimers = @ - 1]))

DetachTimerFires(l) ==
  /\ l \in detachTimers
  /\ Becomes([World EXCEPT
       !.detachTimers = @ \ {l},
       !.leafStatus[l] = IF @ = "open" THEN "detached" ELSE @])

ReapplyTimerFires(tm) ==
  /\ tm \in reapplyTimers
  /\ Becomes(leafSetViewState([World EXCEPT !.reapplyTimers = @ \ {tm}],
                              tm.leaf, tm.vs))

ApplyDone(t) ==
  /\ t \in applyTasks
  /\ t.awaits = 0 \/ ~\E c \in createTasks : c.leaf = t.awaits
  /\ Becomes(ResumeApply(World, t))

CreateDone(t) ==
  /\ t \in createTasks
  /\ Becomes(ResumeCreate(World, t))

\* the toggles of SearchPinnedRememberSettingTab
ToggleOpenBookmarksInMainArea ==
  /\ phase = "running"
  /\ LET value == ~settings.openBookmarksInMainArea
         w1 == saveSettings([World EXCEPT !.settings.openBookmarksInMainArea = value])
     IN  Becomes(IF value THEN setupCommandInterception(w1) ELSE w1)

ToggleRememberQuery ==
  /\ phase = "running"
  /\ Becomes(saveSettings([World EXCEPT !.settings.rememberQuery = ~@]))

ToggleAutoPinSearchTab ==
  /\ phase = "running"
  /\ Becomes(saveSettings([World EXCEPT !.settings.autoPinSearchTab = ~@]))

ToggleClearSidebarSearchOnStartup ==
  /\ phase = "running"
  /\ Becomes(saveSettings([World EXCEPT !.settings.clearSidebarSearchOnStartup = ~@]))

ToggleDebugMode ==
  /\ phase = "running"
  /\ Becomes(saveSettings([World EXCEPT !.settings.debugMode = ~@]))

\* the host opens a search view in the main area while no leaf is open
HostOpenOnlySearchLeaf ==
  /\ OpenLeaves(World) = {}
  /\ HostOpenSearchLeaf(TRUE)

\* the host opens a search view in a sidebar while no leaf is open
HostOpenOnlySidebarSearchLeaf ==
  /\ OpenLeaves(World) = {}
  /\ HostOpenSearchLeaf(FALSE)

\* the user runs "Save current Search state now" with leaf a active (0: none)
SaveCurrentSearchState(a) ==
  /\ phase \in {"loading", "running"}
  /\ a # 0 => leafStatus[a] = "open"
  /\ Becomes(saveCurrentSearchState(World, a))

\* the user runs "Clear saved Search state" or clicks Clear in the settings
ClearSavedSearchState ==
  /\ phase \in {"loading", "running"}
  /\ Becomes(clearSavedSearchState(World))

\* the user runs "Open Search in pinned main tab"
OpenPinnedSearch ==
  /\ phase \in {"loading", "running"}
  /\ Becomes(openPinnedSearchWithLastState(World))

OpenDone(t) ==
  /\ t \in openTasks
  /\ Becomes(ResumeOpen(World, t))

\* one more call sanitizeSearchStateForPersistence(state), on the input the
\* first time and on the previous result afterwards
Sanitize ==
  /\ Len(sanResults) < MaxApplications
  /\ LET arg == IF sanResults = << >> THEN sanInput
                ELSE sanResults[Len(sanResults)].result
     IN  sanResults' = Append(sanResults,
           [remember |-> settings.rememberQuery, arg |-> arg,
            result |-> sanitizeSearchStateForPersistence(World, arg)])
  /\ UNCHANGED << pluginVars, mainTsVars, sanInput, locationVars >>

\* a handler, a timer callback or a setViewState wrapper of the plugin calls
\* isInMainArea(leaf)
Classify ==
  /\ layoutHandlers # "none"
  /\ classified.calls < MaxCalls
  /\ LET r == isInMainAreaCached(leafLocationCache, parentOf, rootSplit)
     IN  /\ leafLocationCache' = r.cache
         /\ classified' =
              [calls |-> classified.calls + 1, main |-> r.main,
               inspected |-> r.inspected, fromCache |-> r.fromCache,
               stale |-> r.fromCache /\ cachedBeforeLayoutChange,
               agrees |-> classified.calls > 0 => r.main = classified.main]
  /\ UNCHANGED << pluginVars, sanInput, sanResults, mainTsVars, parentOf,
                  rootSplit, layoutHandlers, cachedBeforeLayoutChange >>

\* the host emits layout-change: each registered handler of the plugin
\* starts with clearLocationCache; classifies says whether the handlers go
\* on to call isInMainArea(leaf)
LayoutChangeEvent(par, classifies) ==
  LET handled == layoutHandlers = "registered"
      cleared == IF handled THEN clearLocationCache ELSE leafLocationCache
      r == isInMainAreaCached(cleared, par, rootSplit)
  IN  /\ leafLocationCache' = IF handled /\ classifies THEN r.cache
                              ELSE cleared
      /\ cachedBeforeLayoutChange' = (cleared # "none")
      /\ classified' =
           IF handled /\ classifies
           THEN [calls |-> 1, main |-> r.main, inspected |-> r.inspected,
                 fromCache |-> r.fromCache, stale |-> FALSE, agrees |-> TRUE]
           ELSE NotClassified

\* onload registers the layout-change handlers and runs handleLayoutChanges
LocationOnload ==
  /\ layoutHandlers = "none"
  /\ layoutHandlers' = "registered"
  /\ UNCHANGED << pluginVars, sanInput, sanResults, mainTsVars, parentOf,
                  rootSplit, leafLocationCache, classified,
                  cachedBeforeLayoutChange >>

\* onunload: the registered events are removed, the cache and the
\* setViewState wrappers of the leaves stay
LocationOnunload ==
  /\ layoutHandlers = "registered"
  /\ layoutHandlers' = "removed"
  /\ UNCHANGED << pluginVars, sanInput, sanResults, mainTsVars, parentOf,
                  rootSplit, leafLocationCache, classified,
                  cachedBeforeLayoutChange >>

\* the user drags the leaf under another item of the workspace (0: the leaf
\* is detached); the host emits layout-change
HostMovesLeaf(p, classifies) ==
  /\ p # parentOf[0]
  /\ parentOf' = [parentOf EXCEPT ![0] = p]
  /\ LayoutChangeEvent(parentOf', classifies)
  /\ UNCHANGED << pluginVars, sanInput, sanResults, mainTsVars, rootSplit,
                  layoutHandlers >>

\* the host emits layout-change for a change elsewhere in the workspace
LayoutChangeElsewhere(classifies) ==
  /\ LayoutChangeEvent(parentOf, classifies)
  /\ UNCHANGED << pluginVars, sanInput, sanResults, mainTsVars, parentOf,
                  rootSplit, layoutHandlers >>

MainOnload ==
  /\ phase = "constructed"
  /\ Becomes(main_onload(World))

\* the host opens a search view showing st in a new leaf of the main area
MainHostOpensSearch(st) ==
  /\ phase \in {"constructed", "running"}
  /\ FreeLeaves(World) # {}
  /\ LET leaf == CHOOSE x \in FreeLeaves(World) : \A y \in FreeLeaves(World) : x <= y
         saved == IF phase = "running" THEN settings.lastSearchState
                  ELSE main_loadSettings(World).settings.lastSearchState
     IN  Becomes([World EXCEPT
           !.leafStatus[leaf] = "open", !.leafMain[leaf] = TRUE,
           !.viewType[leaf] = "search", !.leafState[leaf] = st,
           !.savedBeforeOpen[leaf] = saved])

\* the host emits layout-change or active-leaf-change while leaf a is active
\* (0: none): snapshotSearchState, then tryInitializeNewSearchLeaves
MainWorkspaceEvent(a) ==
  /\ phase = "running"
  /\ a # 0 => leafStatus[a] = "open"
  /\ Becomes(tryInitializeNewSearchLeaves(snapshotSearchState(World, a)))

\* the state recorded when the leaf appeared is dropped once the leaf has
\* been initialised
MainInitializeDone(t) ==
  /\ t \in initTasks
  /\ Becomes([ResumeInitialize(World, t) EXCEPT !.savedBeforeOpen[t.leaf] = Null])

MainPollTick(t) ==
  /\ t \in liveIntervals
  /\ Becomes(poll(World, t.leaf))

\* the instants at which a comparison of the plugin against Date.now()
\* changes its result
Deadlines ==
  {initializationCompleteTime + gracePeriod,
   lastRedirectionTriggerTime + duplicatePreventionWindow}
  \cup {leafCreationTime[l] + immunityPeriod : l \in Leaves}

\* time passes, up to the next such instant; the short timeouts (0 to 100 ms)
\* have fired by then
Advance ==
  /\ phase \in {"loading", "running"}
  /\ passTimers = 0 /\ detachTimers = {} /\ reapplyTimers = {}
  /\ \E t \in Deadlines :
       /\ t > now /\ t <= StartTime + MaxElapsed
       /\ \A u \in Deadlines : u > now => t <= u
       /\ Becomes([World EXCEPT !.now = t])

\* the plugin with nothing remembered: leaves are watched or redirected as
\* soon as they are processed
Next ==
  \/ Onload
  \/ Unload
  \/ LayoutChange
  \/ \E l \in Leaves : ActiveLeafChange(l)
  \/ \E main \in BOOLEAN : HostOpenSearchLeaf(main)
  \/ \E l \in Leaves : BookmarkOpensSearch(l)
  \/ \E l \in Leaves : UserNavigatesAway(l)
  \/ \E c \in DispatchedCommands : Dispatch(c)
  \/ \E t \in liveIntervals : PollTick(t)
  \/ PassTimerFires
  \/ \E l \in Leaves : DetachTimerFires(l)
  \/ \E t \in createTasks : CreateDone(t)
  \/ ToggleOpenBookmarksInMainArea
  \/ Advance

InitNothingRemembered == Init /\ stored = EmptyState

Spec == InitNothingRemembered /\ [][Next]_vars

\* search views of the main area, with or without a remembered state, edited
\* by the user and polled by the monitor
NextWatch ==
  \/ Onload
  \/ Unload
  \/ LayoutChange
  \/ HostOpenSearchLeaf(TRUE)
  \/ \E l \in Leaves : UserNavigatesAway(l)
  \/ \E l \in Leaves, s \in LeafStates : UserEdit(l, s)
  \/ \E t \in liveIntervals : PollTick(t)
  \/ \E tm \in reapplyTimers : ReapplyTimerFires(tm)
  \/ \E t \in applyTasks : ApplyDone(t)
  \/ Advance

SpecWatch == Init /\ [][NextWatch]_vars

\* one search view opened by the host, in the main area or in a sidebar,
\* that leaves the search view and comes back to it, with nothing remembered
NextRewatch ==
  \/ Onload
  \/ LayoutChange
  \/ HostOpenOnlySearchLeaf
  \/ HostOpenOnlySidebarSearchLeaf
  \/ \E l \in Leaves : UserNavigatesAway(l)
  \/ \E l \in Leaves : HostShowsSearchAgain(l)
  \/ \E c \in DispatchedCommands : Dispatch(c)
  \/ \E t \in liveIntervals : PollTick(t)
  \/ PassTimerFires
  \/ \E l \in Leaves : DetachTimerFires(l)
  \/ \E t \in createTasks : CreateDone(t)
  \/ Advance

SpecRewatch == InitNothingRemembered /\ [][NextRewatch]_vars

\* the commands that save and clear the remembered state, and the
\* "Remember search query" toggle, with search views of the main area
NextCommands ==
  \/ Onload
  \/ LayoutChange
  \/ HostOpenSearchLeaf(TRUE)
  \/ \E a \in Leaves \cup {0} : SaveCurrentSearchState(a)
  \/ ClearSavedSearchState
  \/ ToggleRememberQuery
  \/ \E t \in applyTasks : ApplyDone(t)

SpecCommands == Init /\ [][NextCommands]_vars

\* the command "Open Search in pinned main tab": its leaves are the only ones
NextOpenPinned ==
  \/ Onload
  \/ OpenPinnedSearch
  \/ \E t \in openTasks : OpenDone(t)
  \/ \E l \in Leaves, st \in LeafStates : UserEdit(l, st)
  \/ \E a \in Leaves \cup {0} : SaveCurrentSearchState(a)
  \/ ClearSavedSearchState
  \/ ToggleRememberQuery
  \/ ToggleAutoPinSearchTab

SpecOpenPinned == Init /\ [][NextOpenPinned]_vars

\* sanitizeSearchStateForPersistence applied to every state a view can
\* report, under both values of "Remember search query"
InitSanitize ==
  /\ InitPlugin
  /\ sanInput \in SearchStates
  /\ sanResults = << >>

NextSanitize ==
  \/ Onload
  \/ ToggleRememberQuery
  \/ Sanitize

SpecSanitize == InitSanitize /\ [][NextSanitize]_vars

\* the plugin of src/main.ts
InitMainTs ==
  /\ InitWith(main_DEFAULT_SETTINGS)
  /\ initializedSearchLeaves = {}
  /\ leafLastStateStr = [l \in Leaves |-> NoBaseline]
  /\ initTasks = {}
  /\ savedBeforeOpen = [l \in Leaves |-> Null]
  /\ sanInput = Null
  /\ sanResults = << >>
  /\ NoAncestry

NextMainTs ==
  \/ MainOnload
  \/ \E st \in LeafStates : MainHostOpensSearch(st)
  \/ \E a \in Leaves \cup {0} : MainWorkspaceEvent(a)
  \/ \E t \in initTasks : MainInitializeDone(t)
  \/ \E t \in liveIntervals : MainPollTick(t)
  \/ ToggleRememberQuery

SpecMainTs == InitMainTs /\ [][NextMainTs]_vars

\* everything that changes the settings record: the commands, the monitor
\* of one search view of the main area, and the five toggles
NextSettings ==
  \/ Onload
  \/ LayoutChange
  \/ HostOpenOnlySearchLeaf
  \/ \E l \in Leaves, s \in LeafStates : UserEdit(l, s)
  \/ \E t \in liveIntervals : PollTick(t)
  \/ \E tm \in reapplyTimers : ReapplyTimerFires(tm)
  \/ \E t \in applyTasks : ApplyDone(t)
  \/ \E a \in Leaves \cup {0} : SaveCurrentSearchState(a)
  \/ ClearSavedSearchState
  \/ ToggleRememberQuery
  \/ ToggleAutoPinSearchTab
  \/ ToggleOpenBookmarksInMainArea
  \/ ToggleClearSidebarSearchOnStartup
  \/ ToggleDebugMode
  \/ Advance

SpecSettings == Init /\ [][NextSettings]_vars

\* a remembered state, leaves of the main area and of the sidebars, commands
\* and layout changes while processNewSearchLeaf is suspended
InitRemembered == Init /\ stored # EmptyState

NextReentry ==
  \/ Onload
  \/ LayoutChange
  \/ \E main \in BOOLEAN : HostOpenSearchLeaf(main)
  \/ \E c \in DispatchedCommands : Dispatch(c)
  \/ PassTimerFires
  \/ \E l \in Leaves : DetachTimerFires(l)
  \/ \E t \in createTasks : CreateDone(t)
  \/ \E t \in applyTasks : ApplyDone(t)
  \/ \E tm \in reapplyTimers : ReapplyTimerFires(tm)
  \/ Advance

SpecReentry == InitRemembered /\ [][NextReentry]_vars

\* applySettingsToNewLeaf on one search view, of the main area or of a
\* sidebar, that the user edits, under both values of rememberQuery
NextApply ==
  \/ Onload
  \/ LayoutChange
  \/ HostOpenOnlySearchLeaf
  \/ HostOpenOnlySidebarSearchLeaf
  \/ \E l \in Leaves, s \in LeafStates : UserEdit(l, s)
  \/ \E a \in Leaves \cup {0} : SaveCurrentSearchState(a)
  \/ ToggleRememberQuery
  \/ \E t \in applyTasks : ApplyDone(t)
  \/ \E tm \in reapplyTimers : ReapplyTimerFires(tm)
  \/ \E t \in createTasks : CreateDone(t)
  \/ Advance

SpecApply == Init /\ [][NextApply]_vars

\* one search view at a time opened by the host and removed from the
\* workspace again, by the user or by a redirection, with a state remembered
NextRemoval ==
  \/ Onload
  \/ LayoutChange
  \/ HostOpenOnlySidebarSearchLeaf
  \/ HostOpenOnlySearchLeaf
  \/ \E l \in Leaves : UserClosesLeaf(l)
  \/ \E t \in liveIntervals : PollTick(t)
  \/ \E t \in applyTasks : ApplyDone(t)
  \/ \E tm \in reapplyTimers : ReapplyTimerFires(tm)
  \/ PassTimerFires
  \/ \E l \in Leaves : DetachTimerFires(l)
  \/ \E t \in createTasks : CreateDone(t)
  \/ Advance

SpecRemoval == InitRemembered /\ [][NextRemoval]_vars

\* sidebar search views edited by the user and redirected to the main area,
\* with the "Auto-pin search tab" toggle, nothing remembered
NextRedirect ==
  \/ Onload
  \/ LayoutChange
  \/ HostOpenSearchLeaf(FALSE)
  \/ \E l \in Leaves, s \in LeafStates : UserEdit(l, s)
  \/ \E c \in DispatchedCommands : Dispatch(c)
  \/ ToggleAutoPinSearchTab
  \/ PassTimerFires
  \/ \E l \in Leaves : DetachTimerFires(l)
  \/ \E t \in createTasks : CreateDone(t)
  \/ Advance

SpecRedirect == InitNothingRemembered /\ [][NextRedirect]_vars

\* sidebar search views redirected by every trigger path (search commands,
\* workspace events, intercepted setViewState calls) next to the command
\* "Open Search in pinned main tab"; the host opens no main-area leaf itself
NextLoop ==
  \/ Onload
  \/ LayoutChange
  \/ \E l \in Leaves : ActiveLeafChange(l)
  \/ HostOpenSearchLeaf(FALSE)
  \/ \E l \in Leaves : BookmarkOpensSearch(l)
  \/ \E c \in DispatchedCommands : Dispatch(c)
  \/ OpenPinnedSearch
  \/ \E t \in openTasks : OpenDone(t)
  \/ PassTimerFires
  \/ \E l \in Leaves : DetachTimerFires(l)
  \/ \E t \in createTasks : CreateDone(t)
  \/ Advance

SpecLoop == InitNothingRemembered /\ [][NextLoop]_vars

\* the enabling conditions of PassTimerFires, DetachTimerFires, CreateDone and
\* OpenDone; each of these actions changes the set it takes its timer or its
\* task from, so none of them stutters
PassDue ==
  /\ passTimers > 0
  /\ CanBecome(handleSearchCommandExecution([World EXCEPT !.passTimers = @ - 1]))

DetachDue == detachTimers # {}

CreateDue == \E t \in createTasks : CanBecome(ResumeCreate(World, t))

OpenDue == \E t \in openTasks : CanBecome(ResumeOpen(World, t))

\* the window runs every due timeout and the host settles every setViewState:
\* weak fairness (WF_vars) of the four actions, with ENABLED written out as
\* the conditions above
FairLoop ==
  /\ SpecLoop
  /\ ([]<>(~PassDue) \/ []<><<PassTimerFires>>_vars)
  /\ ([]<>(~DetachDue) \/ []<><<\E l \in Leaves : DetachTimerFires(l)>>_vars)
  /\ ([]<>(~CreateDue) \/ []<><<\E t \in createTasks : CreateDone(t)>>_vars)
  /\ ([]<>(~OpenDue) \/ []<><<\E t \in openTasks : OpenDone(t)>>_vars)

\* the parent chains isInMainArea can meet: the leaf under a chain of len
\* items that ends (back = 0) or runs into itself (back is an item of the
\* chain), the root split on the chain or not (MaxChain + 1)
InitAncestry ==
  /\ InitWith(DEFAULT_SETTINGS)
  /\ initializedSearchLeaves = {}
  /\ leafLastStateStr = [l \in Leaves |-> NoBaseline]
  /\ initTasks = {}
  /\ savedBeforeOpen = [l \in Leaves |-> Null]
  /\ sanInput = Null
  /\ sanResults = << >>
  /\ stored = EmptyState
  /\ \E len \in 0..MaxChain : \E back \in 0..len :
       /\ back # 0 => len > 0
       /\ parentOf = [i \in 0..MaxChain |->
                        IF i < len THEN i + 1
                        ELSE IF i = len /\ len > 0 THEN back ELSE 0]
  /\ rootSplit \in 1..(MaxChain + 1)
  /\ leafLocationCache = "none"
  /\ layoutHandlers = "registered"
  /\ classified = NotClassified
  /\ cachedBeforeLayoutChange = FALSE

\* isInMainArea called on every such chain, twice
NextClassify ==
  \/ Classify

SpecClassify == InitAncestry /\ [][NextClassify]_vars

\* a leaf under a straight chain of items, the root split one of them or
\* none, before onload
InitLocation ==
  /\ InitWith(DEFAULT_SETTINGS)
  /\ initializedSearchLeaves = {}
  /\ leafLastStateStr = [l \in Leaves |-> NoBaseline]
  /\ initTasks = {}
  /\ savedBeforeOpen = [l \in Leaves |-> Null]
  /\ sanInput = Null
  /\ sanResults = << >>
  /\ stored = EmptyState
  /\ parentOf = [i \in 0..MaxChain |-> IF i < MaxChain THEN i + 1 ELSE 0]
  /\ rootSplit \in 1..(MaxChain + 1)
  /\ leafLocationCache = "none"
  /\ layoutHandlers = "none"
  /\ classified = NotClassified
  /\ cachedBeforeLayoutChange = FALSE

\* the location cache over the life of the plugin: the leaf is moved, the
\* layout changes, handlers and wrappers classify the leaf
NextLocation ==
  \/ LocationOnload
  \/ LocationOnunload
  \/ Classify
  \/ \E p \in 0..MaxChain, c \in BOOLEAN : HostMovesLeaf(p, c)
  \/ \E c \in BOOLEAN : LayoutChangeElsewhere(c)

SpecLocation == InitLocation /\ [][NextLocation]_vars

(* ------------------------------ properties ----------------------------- *)
\* a step hands a leaf to the redirection engine
RedirectionStarts == replacementOf' # replacementOf \/ hidden' # hidden

\* C1: from the start of plugin load until 2 seconds after onload completes,
\* no step hands a peripheral search leaf to the redirection engine
\* (redirectSidebarSearchToMainArea / createSearchTabInMainArea), by any path.
C1_NoRedirectionInGrace ==
  [][RedirectionStarts => ~isInInitializationGracePeriod(World)]_vars

\* C2: exactly-once classification: processNewSearchLeaf runs at most once
\* for every leaf, whatever layout-change, active-leaf-change and command
\* events occur.
C2_ProcessedAtMostOnce == \A l \in Leaves : procCount[l] <= 1

\* a step in which a redirection trigger proceeds: it schedules a redirection
\* pass, or creates a replacement leaf without a pass
TriggerProceeds ==
  \/ passTimers' > passTimers
  \/ passTimers' = passTimers /\ replacementOf' # replacementOf

\* C3: of two redirection triggers less than 500 ms apart only the first
\* proceeds: a trigger proceeds only if the previous trigger of any kind is at
\* least 500 ms old.
C3_OnlyFirstTriggerProceeds ==
  [][TriggerProceeds => now - anyTriggerTime >= duplicatePreventionWindow]_vars

\* the plugin runs with redirection on and has nothing left to do: no timeout
\* pending, no handler suspended, every search leaf seen by handleLayoutChanges
Settled ==
  /\ phase = "running" /\ settings.openBookmarksInMainArea
  /\ passTimers = 0 /\ detachTimers = {} /\ reapplyTimers = {}
  /\ applyTasks = {} /\ createTasks = {}
  /\ \A l \in OpenLeaves(World) : viewType[l] = "search" => l \in processedLeaves

\* leaf l has been moved to the main area
Redirected(l) ==
  /\ leafStatus[l] = "detached"
  /\ \E r \in Leaves :
       /\ replacementOf[r] = l /\ leafStatus[r] = "open" /\ leafMain[r]
       /\ viewType[r] = "search"
       /\ QueryOf(leafState[r]) = "foo"
       /\ settings.autoPinSearchTab => pinned[r]

\* C4: a search leaf created in the sidebar while redirection is on and the
\* grace period has elapsed is eventually replaced by a pinned main-area search
\* leaf with the same query and detached; stated on finite runs: once the
\* plugin has nothing left to do, every such leaf has been redirected.
C4_CreatedLeafRedirected ==
  Settled => \A l \in createdRedirectable : Redirected(l)

C6_UntouchedWhileDisabled ==
  [][~settings.openBookmarksInMainArea =>
       (passTimers' <= passTimers /\ ~RedirectionStarts)]_vars

StoredLastSearchState(st) ==
  IF "lastSearchState" \in DOMAIN st THEN st.lastSearchState ELSE Null

\* C7: when the user has changed a watched leaf after its immunity window,
\* the next polling tick of that leaf sets settings.lastSearchState to the
\* sanitized current state of the leaf and saves it.
C7_EditPersistedAtNextTick ==
  [][\A l \in Leaves :
       (l \in editedSinceTick /\ l \notin editedSinceTick') =>
          /\ settings'.lastSearchState =
               sanitizeSearchStateForPersistence(World, leafState[l])
          /\ StoredLastSearchState(stored') = settings'.lastSearchState]_vars

\* C8: every leaf has at most one live polling interval, and
\* leafWatchIntervals[leaf] is the id of that interval.
C8_OneLiveIntervalPerLeaf ==
  /\ \A l \in Leaves : Cardinality({t \in liveIntervals : t.leaf = l}) <= 1
  /\ \A l \in Leaves :
       leafWatchIntervals[l] # 0 =>
          [id |-> leafWatchIntervals[l], leaf |-> l] \in liveIntervals
  /\ \A t \in liveIntervals : leafWatchIntervals[t.leaf] = t.id

\* a watched leaf that went through processNewSearchLeaf a second time
C8_WatchedLeafReprocessed ==
  \E l \in Leaves :
     /\ procCount[l] = 2
     /\ [id |-> leafWatchIntervals[l], leaf |-> l] \in liveIntervals

\* C9: after onunload no polling interval of the plugin is live and
\* allIntervalIds is empty.
C9_NoIntervalAfterUnload ==
  phase = "unloaded" => (liveIntervals = {} /\ allIntervalIds = <<>>)

\* C10: after onunload the command-dispatch entry point is the host's
\* original executeCommand, however often setupCommandInterception ran.
C10_ExecuteCommandRestored ==
  phase = "unloaded" => DispatchOutcome(World) = "hostOnly"

\* C11: after onunload every wrapped leaf has its original setViewState
\* back: a step taken after teardown that is not a redirection pass (so a
\* setViewState call) creates no main-area replacement.
C11_SetViewStateRestored ==
  [][(phase = "unloaded" /\ passTimers' = passTimers)
        => replacementOf' = replacementOf]_vars

\* C12: while rememberQuery is false the lastSearchState that is persisted
\* has no query field, also after rememberQuery was switched from true to
\* false over a state saved with its query.
C12_NoQueryPersistedUnlessRemembered ==
  (phase = "running" /\ ~settings.rememberQuery
     /\ "lastSearchState" \in DOMAIN stored /\ stored.lastSearchState # Null)
    => "query" \notin DOMAIN stored.lastSearchState

\* C13: with rememberQuery false sanitizeSearchStateForPersistence is
\* idempotent: its result has no query field and keeps every other field of
\* its argument, and sanitising that result again gives the same result.
C13_SanitizeIdempotent ==
  \A i \in 1..Len(sanResults) :
    LET r == sanResults[i]
    IN  ~r.remember =>
          /\ "query" \notin DOMAIN r.result
          /\ DOMAIN r.result = DOMAIN r.arg \ {"query"}
          /\ \A k \in DOMAIN r.result : r.result[k] = r.arg[k]
          /\ (i < Len(sanResults) /\ ~sanResults[i + 1].remember)
                => sanResults[i + 1].result = r.result

\* a state with a query and another field was sanitised twice over, both
\* times with rememberQuery false
C13_SanitisedTwice ==
  /\ Len(sanResults) = 2
  /\ ~sanResults[1].remember /\ ~sanResults[2].remember
  /\ sanInput # Null
  /\ {"query", "sortOrder"} \subseteq DOMAIN sanInput

\* C14: with rememberQuery true sanitizeSearchStateForPersistence returns
\* its argument unchanged, query included.
C14_SanitizeIdentityWhenRemembering ==
  \A i \in 1..Len(sanResults) :
    sanResults[i].remember => sanResults[i].result = sanResults[i].arg

\* a state with a non-empty query was sanitised with rememberQuery true
C14_SanitisedWhileRemembering ==
  /\ Len(sanResults) >= 1
  /\ sanResults[1].remember
  /\ sanInput # Null
  /\ "query" \in DOMAIN sanInput /\ sanInput.query = "foo"

\* C15: what saveSettings writes, loadSettings of a fresh instance reads back
\* as the same settings record (same lastSearchState, same flags); and a
\* field that data.json lacks takes its DEFAULT_SETTINGS value at load.
FreshInstanceLoads(data) ==
  loadSettings([World EXCEPT !.stored = data,
                             !.settings = DEFAULT_SETTINGS]).settings

C15_SettingsRoundTrip ==
  [][ /\ stored' # stored => FreshInstanceLoads(stored') = settings'
      /\ (phase = "constructed" /\ phase' # "constructed")
           => \A k \in DOMAIN DEFAULT_SETTINGS :
                settings'[k] = IF k \in DOMAIN stored THEN stored[k]
                               ELSE DEFAULT_SETTINGS[k] ]_vars

\* settings that differ from the defaults in two flags and in the state
\* were saved
C15_NonDefaultSettingsSaved ==
  /\ phase = "running"
  /\ stored = settings
  /\ settings.rememberQuery /\ ~settings.autoPinSearchTab
  /\ settings.lastSearchState # Null
  /\ "query" \in DOMAIN settings.lastSearchState

\* C16: the command open-search-pinned-remember creates a new leaf of the main
\* area and gives it a search view whose state is, with rememberQuery false,
\* lastSearchState with query set to "" (only {query: ""} when nothing is
\* saved) and, with rememberQuery true, lastSearchState itself ({} when
\* nothing is saved).
ExpectedPinnedState ==
  LET last == settings.lastSearchState
  IN  IF settings.rememberQuery
      THEN IF last = Null THEN EmptyState ELSE last
      ELSE IF last = Null THEN [query |-> ""]
           ELSE [k \in DOMAIN last \cup {"query"} |->
                   IF k = "query" THEN "" ELSE last[k]]

C16_OpenPinnedState ==
  [][ /\ \A t \in openTasks' \ openTasks :
            /\ leafStatus[t.leaf] = "free" /\ leafStatus'[t.leaf] = "open"
            /\ leafMain'[t.leaf]
            /\ t.state = ExpectedPinnedState
      /\ \A t \in openTasks \ openTasks' :
            /\ viewType'[t.leaf] = "search"
            /\ leafMain'[t.leaf]
            /\ leafState'[t.leaf] = t.state ]_vars

\* the command has completed with {sortOrder: "alpha"} saved and
\* rememberQuery false: its leaf shows {sortOrder: "alpha", query: ""}
C16_PinnedSearchOpenedFromSavedState ==
  /\ openTasks = {}
  /\ ~settings.rememberQuery
  /\ settings.lastSearchState = [sortOrder |-> "alpha"]
  /\ \E l \in Leaves :
        /\ leafStatus[l] = "open" /\ viewType[l] = "search"
        /\ leafState[l] = [sortOrder |-> "alpha", query |-> ""]

C19_ClearForgetsState ==
  [][ /\ (/\ phase # "constructed"
          /\ settings.lastSearchState # Null
          /\ settings'.lastSearchState = Null)
         => /\ stored' = settings'
            /\ stored'.lastSearchState = Null
            /\ \A k \in DOMAIN settings \ {"lastSearchState"} :
                  settings'[k] = settings[k]
      /\ settings'.lastSearchState = Null
         => \A l \in processedLeaves' \ processedLeaves :
              /\ leafState'[l] = leafState[l]
              /\ \A t \in applyTasks' : t.leaf # l ]_vars

\* a remembered sort order was applied to one leaf, the state was cleared,
\* and another leaf has been processed and still shows what it was opened with
C19_ProcessedAfterClear ==
  /\ settings.lastSearchState = Null
  /\ "lastSearchState" \in DOMAIN stored /\ stored.lastSearchState = Null
  /\ applyTasks = {}
  /\ \E l1, l2 \in processedLeaves :
        /\ "sortOrder" \in DOMAIN leafState[l1]
        /\ leafState[l2] = [query |-> "foo"]

\* C20: whenever no search leaf exists, running the command
\* save-current-search-state (whichever leaf is active, or none) only shows
\* a notice: lastSearchState and every other setting stay as they are and
\* nothing is written to data.json.
C20_SaveWithoutSearchLeafIsNoOp ==
  (phase \in {"loading", "running"} /\ Len(getLeavesOfType(World)) = 0)
    => \A a \in Leaves \cup {0} :
         (a # 0 => leafStatus[a] = "open")
           => LET w == saveCurrentSearchState(World, a)
              IN  /\ w.ok
                  /\ w.settings = settings
                  /\ w.stored = stored
                  /\ w = World

\* the command can run with no search leaf, a leaf of another view active
\* and settings in memory that a write would put into data.json
C20_NoSearchLeafToSave ==
  /\ phase = "running"
  /\ Len(getLeavesOfType(World)) = 0
  /\ stored # settings
  /\ \E l \in Leaves : leafStatus[l] = "open" /\ viewType[l] # "search"

\* C18: in src/main.ts, once snapshotSearchState and
\* tryInitializeNewSearchLeaves have run for the event that announces a new
\* search leaf and the leaf's setViewState has completed, the leaf's fields
\* other than query are those of the state saved before the leaf appeared,
\* and settings.lastSearchState still is that state.
NonQueryFields(state) == [k \in DOMAIN state \ {"query"} |-> state[k]]

C18_SavedStateAppliedToNewLeaf ==
  [][\A t \in initTasks \ initTasks' :
        savedBeforeOpen[t.leaf] # Null
          => /\ NonQueryFields(leafState'[t.leaf])
                  = NonQueryFields(savedBeforeOpen[t.leaf])
             /\ settings'.lastSearchState = savedBeforeOpen[t.leaf]]_vars

\* C21 as stated: whenever the plugin runs and no operation is in progress
\* the stored record equals the settings record in memory.
C21_StoredEqualsSettings == phase = "running" => stored = settings

\* C21: every change of the settings record in memory (save command, clear
\* command, change detected by the monitor, each toggle of the settings tab)
\* comes with a save of the whole record, so that what data.json holds,
\* merged over the defaults, is the settings record in memory.
C21_SettingsFlushedOnMutation ==
  [][ /\ (phase # "constructed" /\ settings' # settings) => stored' = settings'
      /\ phase' \in {"loading", "running"}
           => FreshInstanceLoads(stored') = settings' ]_vars

\* toggles were switched and the monitor has saved a state the user edited
C21_MonitorAndTogglesSaved ==
  /\ phase = "running"
  /\ stored = settings
  /\ settings.debugMode /\ settings.clearSidebarSearchOnStartup
  /\ settings.lastSearchState = EmptyState
  /\ \E l \in Leaves : leafWatchIntervals[l] # 0 /\ leafBaselineState[l] = "{}"

\* C22: processNewSearchLeaf marks the leaf processed before its first await:
\* while an invocation is suspended in setViewState for a leaf, no step runs
\* processNewSearchLeaf for that leaf again.
C22_NoReprocessingWhileSuspended ==
  [][\A t \in applyTasks \cap applyTasks' :
        procCount'[t.leaf] = procCount[t.leaf]]_vars

\* C23: when processNewSearchLeaf hands a leaf to the redirection engine
\* (redirection on, leaf outside the main area, grace period over) it returns
\* early: the step applies no remembered state to the leaf, records no
\* baseline for it and starts no polling timer for it.
C23_RedirectedLeafLeftAlone ==
  [][\A l \in Leaves :
        (/\ procCount'[l] > procCount[l]
         /\ ~isInInitializationGracePeriod(World)
         /\ settings.openBookmarksInMainArea
         /\ ~isInMainArea(World, l))
        => /\ \A t \in applyTasks' \ applyTasks : t.leaf # l
           /\ leafState'[l] = leafState[l]
           /\ leafBaselineState'[l] = leafBaselineState[l]
           /\ leafWatchIntervals'[l] = leafWatchIntervals[l]
           /\ \A i \in liveIntervals' \ liveIntervals : i.leaf # l]_vars

\* a remembered state exists, and a sidebar leaf created after the grace
\* period has been processed and handed over: a trigger was noted, and the
\* leaf shows what it was opened with, without baseline and without timer
C23_HandedOverUntouched ==
  /\ phase = "running"
  /\ settings.lastSearchState # Null
  /\ \E l \in createdRedirectable \cap processedLeaves :
        /\ anyTriggerTime >= leafCreationTime[l]
        /\ leafCreationTime[l] > StartTime
        /\ leafState[l] = [query |-> "foo"]
        /\ leafBaselineState[l] = NoBaseline
        /\ leafWatchIntervals[l] = 0

\* C24 as stated: applySettingsToNewLeaf writes to the leaf lastSearchState
\* (rememberQuery true) or lastSearchState with the leaf's own query, "" if it
\* has none (rememberQuery false), under the leaf's other view-state fields;
\* the baseline becomes the serialisation of the sanitised written state; and
\* the same view state is written to the leaf once more after the delay.
ExpectedAppliedState(l) ==
  LET last == settings'.lastSearchState
      q == IF "query" \in DOMAIN leafState[l] THEN leafState[l].query ELSE ""
  IN  IF settings'.rememberQuery THEN last
      ELSE [k \in DOMAIN last \cup {"query"} |->
              IF k = "query" THEN q ELSE last[k]]

ExpectedBaseline(state) ==
  JSONstringify(IF settings.rememberQuery THEN state
                ELSE [k \in DOMAIN state \ {"query"} |-> state[k]])

AppliedAsRemembered ==
  /\ \A t \in applyTasks' \ applyTasks :
        /\ t.vs.type = viewType[t.leaf]
        /\ t.vs.state = ExpectedAppliedState(t.leaf)
  /\ \A t \in applyTasks \ applyTasks' :
        /\ leafStatus[t.leaf] = "open"
             => viewType'[t.leaf] = t.vs.type /\ leafState'[t.leaf] = t.vs.state
        /\ leafBaselineState'[t.leaf] = ExpectedBaseline(t.vs.state)
        /\ [leaf |-> t.leaf, vs |-> t.vs] \in reapplyTimers'

WrittenOnceMore ==
  \A tm \in reapplyTimers \ reapplyTimers' :
     leafStatus[tm.leaf] = "open"
       => viewType'[tm.leaf] = tm.vs.type /\ leafState'[tm.leaf] = tm.vs.state

C24_ApplyStep == [][AppliedAsRemembered /\ WrittenOnceMore]_vars

\* C25: whenever a remembered state exists and the first search leaf not
\* yet processed is not one to redirect, the next layout-change event
\* processes it and starts applying the remembered state to it (the watch
\* starts when that write returns), whatever openBookmarksInMainArea is and
\* wherever the leaf is.
C25_AppliedOnFirstEvent ==
  \A l \in Leaves :
    (/\ phase = "running"
     /\ Truthy(settings.lastSearchState)
     /\ leafStatus[l] = "open" /\ viewType[l] = "search"
     /\ l \notin processedLeaves
     /\ \A k \in Leaves :
           (k < l /\ leafStatus[k] = "open" /\ viewType[k] = "search")
             => k \in processedLeaves
     /\ ~(/\ ~isInInitializationGracePeriod(World)
          /\ settings.openBookmarksInMainArea
          /\ ~isInMainArea(World, l)))
    => LET w == handleLayoutChanges(World, FALSE)
       IN  /\ l \in w.processedLeaves
           /\ \E t \in w.applyTasks : t.leaf = l

\* C26 as stated: a tick of the monitor less than 2 seconds after the
\* leaf's recorded creation time leaves lastSearchState, the stored record
\* and the leaf's baseline as they are.
TickChangesNothing(leaf) ==
  LET w == monitor(World, leaf)
  IN  /\ w.settings = settings
      /\ w.stored = stored
      /\ w.leafBaselineState = leafBaselineState

InImmunityWindow(leaf) == now - leafCreationTime[leaf] < immunityPeriod

C26_TickInImmunityChangesNothing ==
  \A t \in liveIntervals : InImmunityWindow(t.leaf) => TickChangesNothing(t.leaf)

\* C26: a tick of the monitor less than 2 seconds after the leaf's recorded
\* creation time, on a leaf that still shows a search view, leaves
\* lastSearchState, the stored record and the leaf's baseline as they are,
\* whatever the state of the view is.
C26_TickInImmunityOnSearchView ==
  \A t \in liveIntervals :
    (InImmunityWindow(t.leaf) /\ viewType[t.leaf] = "search")
      => TickChangesNothing(t.leaf)

\* a watched search view is inside its immunity window and its state no
\* longer matches its baseline
C26_EditedInsideImmunityWindow ==
  \E t \in liveIntervals :
    /\ InImmunityWindow(t.leaf)
    /\ viewType[t.leaf] = "search"
    /\ leafBaselineState[t.leaf] # NoBaseline
    /\ JSONstringify(sanitizeSearchStateForPersistence(World, leafState[t.leaf]))
         # leafBaselineState[t.leaf]

\* C27: a tick of the monitor outside the immunity window, on a search view
\* with a state: if the serialisation of the sanitised current state differs
\* from the leaf's baseline, lastSearchState becomes the sanitised current
\* state, the record is saved and the baseline becomes that serialisation;
\* if it equals the baseline nothing is written.
C27_TickPersistsDifference ==
  \A t \in liveIntervals :
    (/\ viewType[t.leaf] = "search"
     /\ ~InImmunityWindow(t.leaf)
     /\ Truthy(leafState[t.leaf]))
    => LET sanitized == IF settings.rememberQuery THEN leafState[t.leaf]
                        ELSE NonQueryFields(leafState[t.leaf])
           currentStr == JSONstringify(sanitized)
           w == monitor(World, t.leaf)
       IN  IF currentStr # leafBaselineState[t.leaf]
           THEN /\ w.settings.lastSearchState = sanitized
                /\ w.stored = w.settings
                /\ w.leafBaselineState[t.leaf] = currentStr
           ELSE /\ w.settings = settings
                /\ w.stored = stored
                /\ w.leafBaselineState = leafBaselineState

\* what a tick of the monitor on leaf t.leaf, whose view is no longer a
\* search view, leaves behind: its interval cleared, the watch handle, the
\* creation time and the baseline of the leaf removed, nothing persisted
TickEndsWatch(t) ==
  LET w == monitor(World, t.leaf)
  IN  /\ \A i \in w.liveIntervals : i.id # t.id /\ i.leaf # t.leaf
      /\ w.leafWatchIntervals[t.leaf] = 0
      /\ w.leafCreationTime[t.leaf] = 0
      /\ w.leafBaselineState[t.leaf] = NoBaseline
      /\ w.settings = settings
      /\ w.stored = stored

\* C28: on a tick where the leaf's view type is no longer "search" the
\* polling timer of the leaf is cleared, its watch handle, creation time and
\* baseline are removed and nothing is persisted; and no interval is live
\* for a leaf whose watch a tick has ended, so no later tick runs for it.
C28_TickOnOtherViewEndsWatch ==
  /\ \A t \in liveIntervals : viewType[t.leaf] # "search" => TickEndsWatch(t)
  /\ \A t \in liveIntervals : t.leaf \notin cleanedByTick

\* C29: a leaf that has been removed from the workspace is never revisited:
\* no interval of the monitor is live for it, so no tick reads or persists
\* its state, and no application of the remembered state to it is suspended
\* or scheduled.
C29_RemovedLeafNeverRevisited ==
  \A l \in Leaves :
    leafStatus[l] = "detached" =>
      /\ \A t \in liveIntervals : t.leaf # l
      /\ \A t \in applyTasks : t.leaf # l
      /\ \A tm \in reapplyTimers : tm.leaf # l

\* what the wrapper does after the host's executeCommand has returned, for
\* the command id c: on a search-opening command the processed marks of the
\* current sidebar search leaves are cleared and a pass is scheduled, on any
\* other command the plugin state is as it was
WrapperActsOnlyOnSearchCommands(c) ==
  LET w == executeCommandWrapper(World, c)
      sidebar == {l \in OpenLeaves(World) :
                    viewType[l] = "search" /\ ~isInMainArea(World, l)}
  IN  IF isSearchCommand(c)
      THEN w = [World EXCEPT !.processedLeaves = @ \ sidebar,
                             !.passTimers = @ + 1,
                             !.anyTriggerTime = now]
      ELSE w = World

\* C30: whenever a dispatched command goes through the wrapper, the wrapper
\* invokes the host's original executeCommand exactly once and returns its
\* result; after that, only for a search-opening command, it clears the
\* processed marks of the sidebar search leaves and schedules a pass, and
\* for every other command id it leaves the plugin state unchanged.
C30_WrapperCallsHostOnce ==
  executeCommand = "wrapper" =>
    /\ DispatchOutcome(World) = "wrapped"
    /\ \A c \in DispatchedCommands : WrapperActsOnlyOnSearchCommands(c)

\* the view states handed to leaf.setViewState in the checks below
RequestedViewStates ==
  {[type |-> "search", state |-> [query |-> "foo"]],
   [type |-> "search", state |-> [sortOrder |-> "alpha"]],
   [type |-> "search", state |-> Null],
   [type |-> "other", state |-> Null]}

\* the outcome of leaf.setViewState(vs) on the wrapped leaf l in the current
\* state: short-circuited (the leaf keeps its view and a main-area leaf is
\* being created for l from the requested state) exactly when the type is
\* "search", l is peripheral, the grace period is over and redirection is
\* on; otherwise exactly what the host's setter does with vs
SetViewStateOutcome(l, vs) ==
  LET w == leafSetViewState(World, l, vs)
      shortCircuit == /\ vs.type = "search"
                      /\ ~leafMain[l]
                      /\ ~isInitialLoad
                      /\ now - initializationCompleteTime >= gracePeriod
                      /\ settings.openBookmarksInMainArea
      requested == IF vs.state = Null THEN EmptyState ELSE vs.state
  IN  IF shortCircuit
      THEN w.ok =>
             /\ w.viewType[l] = viewType[l]
             /\ w.leafState[l] = leafState[l]
             /\ \E t \in w.createTasks \ createTasks :
                  /\ t.state = requested
                  /\ w.leafMain[t.leaf]
                  /\ w.replacementOf[t.leaf] = l
             /\ Cardinality(w.createTasks) = Cardinality(createTasks) + 1
      ELSE w = originalSetViewState(World, l, vs)

ReplacementRequested(l) ==
  \E t \in createTasks' \ createTasks :
    /\ replacementOf'[t.leaf] = l
    /\ leafMain'[t.leaf]
    /\ t.state = leafState[l]

\* the creation t of a main-area leaf completes in this step: the leaf shows
\* the search view with the state asked for, pinned iff autoPinSearchTab
ReplacementCompleted(t) ==
  /\ viewType'[t.leaf] = "search"
  /\ leafState'[t.leaf] = t.state
  /\ leafMain'[t.leaf]
  /\ pinned'[t.leaf] = settings.autoPinSearchTab

\* C32: the replacement leaf created by a redirection of leaf l is created
\* in the main area with view type "search" and the state l has at the time
\* of the redirection, and it is pinned iff autoPinSearchTab is true.
C32_ReplacementCopiesState ==
  [][/\ \A l \in Leaves :
         (~hidden[l] /\ hidden'[l]) => ReplacementRequested(l)
     /\ \A t \in createTasks \ createTasks' :
         (replacementOf[t.leaf] # 0 /\ leafStatus[t.leaf] = "open")
           => ReplacementCompleted(t)]_vars

\* completed replacements of both kinds: one pinned, one not pinned, each
\* showing the state of the sidebar leaf it replaces
C32_ReplacedPinnedAndNot ==
  \E r1, r2 \in Leaves :
    /\ replacementOf[r1] # 0 /\ replacementOf[r2] # 0
    /\ viewType[r1] = "search" /\ viewType[r2] = "search"
    /\ pinned[r1] /\ ~pinned[r2]
    /\ leafState[r1] = leafState[replacementOf[r1]]
    /\ leafState[r2] = leafState[replacementOf[r2]]

\* active-leaf-change fires for leaf l and the pass it schedules runs next
PassAfterActivation(l) ==
  LET w1 == handleActiveLeafChanges(World, l)
  IN  handleSearchCommandExecution([w1 EXCEPT !.passTimers = @ - 1])

\* C33: when active-leaf-change fires for an existing (processed) peripheral
\* search leaf with redirection enabled, the grace period elapsed and no
\* trigger in the last 500 ms, a redirection pass is scheduled, and the pass
\* relocates that leaf: it is hidden, a main-area leaf is created for it and
\* its detach is scheduled.
C33_ActivationRelocatesLeaf ==
  \A l \in Leaves :
    (/\ phase = "running"
     /\ leafStatus[l] = "open" /\ viewType[l] = "search"
     /\ ~leafMain[l] /\ ~hidden[l]
     /\ l \in processedLeaves
     /\ settings.openBookmarksInMainArea
     /\ ~isInInitializationGracePeriod(World)
     /\ ~shouldPreventDuplicateRedirection(World)
     /\ passTimers = 0
     /\ FreeLeaves(World) # {})
    => /\ handleActiveLeafChanges(World, l).passTimers = 1
       /\ LET w == PassAfterActivation(l)
          IN  /\ w.hidden[l]
              /\ l \in w.detachTimers
              /\ \E t \in w.createTasks : w.replacementOf[t.leaf] = l

\* layout-change fires while l is the only unprocessed sidebar search leaf,
\* and the pass scheduled for l runs next
PassAfterCreation ==
  LET w1 == handleLayoutChanges(World, FALSE)
  IN  handleSearchCommandExecution([w1 EXCEPT !.passTimers = @ - 1])

\* C39: the leaf relocated by a redirection pass is the leaf whose creation
\* triggered the pass: when the pass scheduled for the new peripheral search
\* leaf l runs, it hides l, asks for a main-area leaf for l and schedules the
\* detach of l, and of no other peripheral search leaf.
C39_PassRelocatesItsLeaf ==
  \A l \in Leaves :
    (/\ phase = "running"
     /\ leafStatus[l] = "open" /\ viewType[l] = "search" /\ ~leafMain[l]
     /\ l \notin processedLeaves
     /\ \A k \in OpenLeaves(World) \ {l} :
          viewType[k] = "search" => k \in processedLeaves
     /\ settings.openBookmarksInMainArea
     /\ ~isInInitializationGracePeriod(World)
     /\ ~shouldPreventDuplicateRedirection(World)
     /\ passTimers = 0
     /\ FreeLeaves(World) # {})
    => LET w == PassAfterCreation
       IN  /\ w.hidden[l]
           /\ w.detachTimers \ detachTimers = {l}
           /\ \E t \in w.createTasks : w.replacementOf[t.leaf] = l

\* the k-th ancestor of the leaf, 0 if there is none
RECURSIVE AncestorAt(_)
AncestorAt(k) == IF k = 0 THEN 0 ELSE parentOf[AncestorAt(k - 1)]

\* the items among the leaf's first 10 ancestors
FirstAncestors == {AncestorAt(k) : k \in 1..MaxDepth} \ {0}

\* C34: a call of isInMainArea inspects at most 10 ancestors and returns main
\* exactly when the workspace root split is among the leaf's first 10
\* ancestors; when the chain ends, the root is deeper or the chain is cyclic
\* it returns peripheral.
C34_MainIffRootWithinTen ==
  classified.calls > 0 =>
    /\ classified.inspected <= MaxDepth
    /\ classified.main <=> rootSplit \in FirstAncestors

\* classified as peripheral after ten ancestors: the root split is the
\* eleventh
C34_RootTooDeep ==
  /\ classified.calls > 0 /\ ~classified.main
  /\ classified.inspected = MaxDepth
  /\ rootSplit = parentOf[AncestorAt(MaxDepth)]
  /\ rootSplit \notin FirstAncestors

\* C35: between two layout-change events isInMainArea returns the same value
\* for the leaf; a layout-change event empties the cache before the leaf is
\* classified, so the first classification after a layout change reflects
\* the leaf's current ancestor chain, and no value cached before the most
\* recent layout change is ever returned.
C35_CacheNeverOlderThanLayout ==
  classified.calls > 0 =>
    /\ classified.agrees
    /\ ~classified.stale
    /\ classified.calls = 1 => (classified.main <=> rootSplit \in FirstAncestors)

\* C36: after any sequence of switching openBookmarksInMainArea off and on,
\* the saved originalExecuteCommand is the host's function and never a
\* wrapper of the plugin, so that a dispatch terminates and runs the host's
\* executeCommand exactly once.
C36_OriginalIsHostFunction ==
  phase = "running" =>
    /\ originalExecuteCommand \in {"null", "host"}
    /\ DispatchOutcome(World) \in {"hostOnly", "wrapped"}

\* C37: every search leaf that is marked processed and still shows a search
\* view in the workspace has an active polling timer, or its redirection has
\* been started (it is hidden and being detached), or the step that decides
\* between the two is still under way (its processing is suspended, or a
\* redirection pass is scheduled); a peripheral leaf whose trigger was
\* dropped by the 500 ms suppression is not left with neither.
C37_ProcessedLeafWatchedOrRedirected ==
  \A l \in processedLeaves :
    (leafStatus[l] = "open" /\ viewType[l] = "search") =>
      \/ \E t \in liveIntervals : t.leaf = l
      \/ hidden[l] \/ l \in detachTimers
      \/ \E t \in applyTasks : t.leaf = l
      \/ passTimers > 0

\* the main-area leaves created as replacements of the peripheral leaf l
ReplacementsOf(l) == {r \in Leaves : replacementOf[r] = l}

\* C38: for each peripheral search leaf at most one main-area replacement
\* leaf is ever created, whatever the interleaving of search commands, event
\* triggers, intercepted setViewState calls and the delayed detach.
C38_AtMostOneReplacement ==
  \A l \in Leaves : Cardinality(ReplacementsOf(l)) <= 1


\* the leaves created by createSearchTabInMainArea or by the command
\* "Open Search in pinned main tab"
PluginCreated ==
  {r \in Leaves : replacementOf[r] # 0 \/ r \in openedPinned}

\* the leaf is in the main area and no redirection has touched it
NeverRedirected(r) ==
  /\ leafMain[r]
  /\ leafStatus[r] = "open"
  /\ ~hidden[r]
  /\ r \notin detachTimers
  /\ ReplacementsOf(r) = {}

\* a pass is scheduled, a replacement tab is being filled or a detach is due
PendingRedirection ==
  passTimers > 0 \/ createTasks # {} \/ detachTimers # {}

\* every leaf slot of the workspace is in use
Exhausted == FreeLeaves(World) = {}

\* a step of the host or of the user: the plugin is loaded, a leaf is opened,
\* a workspace event is emitted, a command is run, a bookmark is opened
TriggerStep ==
  \/ Onload
  \/ LayoutChange
  \/ \E l \in Leaves : ActiveLeafChange(l)
  \/ HostOpenSearchLeaf(FALSE)
  \/ \E l \in Leaves : BookmarkOpensSearch(l)
  \/ \E c \in DispatchedCommands : Dispatch(c)
  \/ OpenPinnedSearch

====
